---- MODULE Spec2Model ----
(***************************************************************************)
(* execution_in_loop.py: repeated execution of a converted notebook over   *)
(* one key length or over an inclusive range of key lengths.               *)
(*                                                                         *)
(* Python values are tagged records (PyInt, PyStr, PyNone); text is built  *)
(* the way the f-strings and str() build it; the lines written to the      *)
(* child's stdin are a sequence, one element per "\n"-terminated line.     *)
(***************************************************************************)
EXTENDS Integers, Sequences, FiniteSets, TLC

VARIABLES
    cfg,          \* arguments of run_notebook_in_loop, as the prompts left them
    pc,           \* position of the single thread of control
    script_name,  \* run_notebook_in_loop: script_name
    nextKey,      \* position of the iterator of range(begin, end+1)
    currentKey,   \* run_notebook_in_loop: currentKey
    key_length,   \* executionLoop: key_length parameter
    i,            \* executionLoop: i
    proc,         \* the child process subprocess.run is blocked on
    conversions,  \* completed or attempted runs of jupyter nbconvert
    nbconvert_rc, \* history: returncode of the converter, None until it exits
    runs,         \* history: every subprocess.run(["python", script_name]) so far
    out,          \* lines printed on stdout
    terminal      \* how control left run_notebook_in_loop

vars == <<cfg, pc, script_name, nextKey, currentKey, key_length, i, proc,
          conversions, nbconvert_rc, runs, out, terminal>>

----------------------------------------------------------------------------
(* Bounds *)

MaxLoopCount == 2
MaxKey == 2

----------------------------------------------------------------------------
(* Python values *)

PyNone == [t |-> "none"]
PyInt(n) == [t |-> "int", n |-> n]
PyStr(s) == [t |-> "str", s |-> s]

IsNone(x) == x.t = "none"
IsInt(x) == x.t = "int"
IsStr(x) == x.t = "str"

\* x == 'c' for a str literal c
EqStr(x, c) == IsStr(x) /\ x.s = c

\* bool(x): truth value used by "key_length if key_length else 'e'"
Truthy(x) ==
    CASE IsInt(x) -> x.n # 0
      [] IsStr(x) -> x.s # ""
      [] IsNone(x) -> FALSE

Digit(d) ==
    CASE d = 0 -> "0" [] d = 1 -> "1" [] d = 2 -> "2" [] d = 3 -> "3"
      [] d = 4 -> "4" [] d = 5 -> "5" [] d = 6 -> "6" [] d = 7 -> "7"
      [] d = 8 -> "8" [] d = 9 -> "9"

RECURSIVE NatToStr(_)
NatToStr(n) ==
    IF n < 10 THEN Digit(n) ELSE NatToStr(n \div 10) \o Digit(n % 10)

\* str(n) for an int n
IntToStr(n) ==
    IF n < 0 THEN "-" \o NatToStr(0 - n) ELSE NatToStr(n)

\* str(x), also what an f-string field {x} yields
Str(x) ==
    CASE IsInt(x) -> IntToStr(x.n)
      [] IsStr(x) -> x.s
      [] IsNone(x) -> "None"

\* a path is a sequence of text segments; Join is the path as text
RECURSIVE Join(_)
Join(p) ==
    IF p = <<>> THEN "" ELSE Head(p) \o Join(Tail(p))

\* notebook_name.replace(".ipynb", ".py"): every occurrence is replaced
Replace(p) ==
    [k \in 1..Len(p) |-> IF p[k] = ".ipynb" THEN ".py" ELSE p[k]]

\* os.getcwd() + "\\results_of_executions.csv"
DefaultFilename == "cwd\\results_of_executions.csv"

----------------------------------------------------------------------------
(* The prompts (module level, lines 82-129) *)

Empty == [t |-> "empty"]
Invalid == [t |-> "invalid"]

Keys == (0 - 1)..MaxKey
LoopCounts == (0 - 1)..MaxLoopCount

NotebookNames == {<<"qkd", ".ipynb">>, <<"qkd", ".txt">>}

RawInputs ==
    [ notebook : NotebookNames,
      exists   : BOOLEAN,
      loop     : {Empty} \cup {PyInt(n) : n \in LoopCounts},
      device   : {Empty, PyInt(0), PyInt(1)},
      use_token: {"", "y", "Y", "n"},
      token    : {"", "tok"},
      key      : {PyStr("e"), PyStr("i")} \cup {PyInt(n) : n \in Keys},
      begin    : {Invalid} \cup {PyInt(n) : n \in Keys},
      end      : {Invalid} \cup {PyInt(n) : n \in Keys},
      filename : {"", "/r.csv"} ]

\* int(input(...) or d)
IntOr(inp, d) == IF inp.t = "empty" THEN d ELSE inp.n

\* lines 87-95
TokenOf(raw) ==
    IF IntOr(raw.device, 0) = 1
    THEN IF raw.use_token \in {"y", "Y"} THEN PyStr(raw.token) ELSE PyNone
    ELSE PyNone

\* lines 100-124: key_length
KeyLengthOf(raw) ==
    IF ~EqStr(raw.key, "e") /\ ~EqStr(raw.key, "i") THEN raw.key
    ELSE IF EqStr(raw.key, "i") THEN PyStr("i")
    ELSE PyStr("e")

\* lines 101, 111-115: given_range_begin
RangeBeginOf(raw) ==
    IF EqStr(raw.key, "i")
    THEN IF raw.begin.t = "invalid" THEN PyInt(0) ELSE raw.begin
    ELSE PyNone

\* lines 102, 117-121: given_range_end
RangeEndOf(raw) ==
    IF EqStr(raw.key, "i")
    THEN IF raw.end.t = "invalid" THEN PyInt(RangeBeginOf(raw).n + 1) ELSE raw.end
    ELSE PyNone

\* lines 127-129
FilenameOf(raw) == IF raw.filename = "" THEN DefaultFilename ELSE raw.filename

\* the argument list of the call on line 133
Collect(raw) ==
    [ notebook_name           |-> raw.notebook,
      exists                  |-> raw.exists,
      loop_count              |-> IntOr(raw.loop, 1),
      execute_on_which_device |-> IntOr(raw.device, 0),
      token                   |-> TokenOf(raw),
      key_length              |-> KeyLengthOf(raw),
      filename                |-> FilenameOf(raw),
      given_range_begin       |-> RangeBeginOf(raw),
      given_range_end         |-> RangeEndOf(raw) ]

----------------------------------------------------------------------------
(* Printed lines *)

MissingMsg(name) == "The file " \o Join(name) \o " does not exist."
RangeMsg(b, e) == "Range: " \o Str(b) \o " - " \o Str(e)
CurrentKeyMsg(k) == "Current Key Length to test: " \o IntToStr(k)
BannerMsg(n) == "------ EXECUTION NUMBER " \o IntToStr(n) \o " ------"
ErrorMsg(n, rc) ==
    "Execution number " \o IntToStr(n) \o " exited with an error (return code: "
        \o IntToStr(rc) \o ")."
NoNextMsg == "Next executions won't be executed."
\* str(e) of the OSError raised when the program to spawn cannot be started
SpawnErrorMsg(program) ==
    "[Errno 2] No such file or directory: '" \o program \o "'"

----------------------------------------------------------------------------
(* executionLoop, lines 35-59 *)

\* {key_length if key_length else 'e'}
KeyField(kl) == IF Truthy(kl) THEN Str(kl) ELSE "e"

\* lines 41-47 with the test of the device on line 41 left out
Inputs_TokenAlways(device, token, kl, filename) ==
    IF ~IsNone(token)
    THEN <<IntToStr(device), Str(token), KeyField(kl), filename>>
    ELSE <<IntToStr(device), KeyField(kl), filename>>

\* lines 41-47 with the token line given on the first repetition only
Inputs_TokenOnce(device, token, kl, filename) ==
    IF device = 1 /\ ~IsNone(token) /\ i = 0
    THEN <<IntToStr(device), Str(token), KeyField(kl), filename>>
    ELSE <<IntToStr(device), KeyField(kl), filename>>

\* lines 41-47: the lines of `inputs`
Inputs(device, token, kl, filename) ==
    IF device = 1
    THEN IF ~IsNone(token)
         THEN <<IntToStr(device), Str(token), KeyField(kl), filename>>
         ELSE <<IntToStr(device), KeyField(kl), filename>>
    ELSE <<IntToStr(device), KeyField(kl), filename>>

\* range(loop_count) taken as range(loop_count + 1)
LoopRange_Inclusive(n) == 0..n

\* range(loop_count) taken as range(loop_count - 1)
LoopRange_Short(n) == 0..(n - 2)

\* range(loop_count)
LoopRange(n) == 0..(n - 1)

\* range(given_range_begin, given_range_end+2)
KeyRange_OneMore(b, e) == b..((e + 2) - 1)

\* range(given_range_begin, given_range_end+1)
KeyRange(b, e) == b..((e + 1) - 1)

OSError(program) == [class |-> "OSError", text |-> SpawnErrorMsg(program)]
\* exit(): SystemExit with code None; str() of it is empty
SystemExit == [class |-> "SystemExit", text |-> ""]
NoException == [class |-> "", text |-> ""]

\* `except Exception`: SystemExit derives from BaseException only
Catches(exc) == exc.class \in {"OSError", "CalledProcessError"}

\* lines 52-55 with a count of all runs so far in place of i+1 on line 53
AfterReturn_GlobalOrdinal(o, n, rc) ==
    IF rc # 0
    THEN [out |-> o \o <<ErrorMsg(Len(runs), rc), NoNextMsg>>,
          raised |-> SystemExit]
    ELSE [out |-> o, raised |-> NoException]

\* lines 52-55 with the exit() of line 55 left out
AfterReturn_NoExit(o, n, rc) ==
    IF rc # 0
    THEN [out |-> o \o <<ErrorMsg(n, rc), NoNextMsg>>, raised |-> NoException]
    ELSE [out |-> o, raised |-> NoException]

\* lines 52-55: after subprocess.run returned with returncode rc
AfterReturn(o, n, rc) ==
    IF rc # 0
    THEN [out |-> o \o <<ErrorMsg(n, rc), NoNextMsg>>, raised |-> SystemExit]
    ELSE [out |-> o, raised |-> NoException]

\* lines 57-59 with the exit() of line 59 left out
ExceptClause_NoExit(o, e) ==
    [out |-> Append(o, e.text), raised |-> NoException]

\* lines 57-59: the except clause of executionLoop, entered with e
ExceptClause(o, e) ==
    [out |-> Append(o, e.text), raised |-> SystemExit]

\* lines 39-59: an exception raised inside the try block
RaisedInTry(o, e) ==
    IF Catches(e) THEN ExceptClause(o, e) ELSE [out |-> o, raised |-> e]

\* lines 132-135: an exception leaving run_notebook_in_loop
ModuleLevel(o, e) ==
    IF Catches(e)
    THEN [out |-> Append(o, e.text), terminal |-> "caught " \o e.class]
    ELSE [out |-> o, terminal |-> e.class]

----------------------------------------------------------------------------
(* State *)

NoProc == [program |-> "", status |-> "none"]

Init ==
    /\ \E raw \in RawInputs : cfg = Collect(raw)
    /\ pc = "entry"
    /\ script_name = <<>>
    /\ nextKey = 0
    /\ currentKey = PyNone
    /\ key_length = PyNone
    /\ i = 0
    /\ proc = NoProc
    /\ conversions = 0
    /\ nbconvert_rc = PyNone
    /\ runs = <<>>
    /\ out = <<>>
    /\ terminal = ""

\* run_notebook_in_loop called with any arguments of its signature (line 61),
\* the defaults of the range included
CallArgs ==
    { c \in [ notebook_name           : NotebookNames,
              exists                  : BOOLEAN,
              loop_count              : LoopCounts,
              execute_on_which_device : {0, 1},
              token                   : {PyNone, PyStr(""), PyStr("tok")},
              key_length              : {PyNone, PyStr("e"), PyStr("i")}
                                            \cup {PyInt(n) : n \in Keys},
              filename                : {DefaultFilename, "/r.csv"},
              given_range_begin       : {PyInt(n) : n \in Keys},
              given_range_end         : {PyInt(n) : n \in Keys} ] :
        EqStr(c.key_length, "i")
            \/ (c.given_range_begin = PyInt(0) /\ c.given_range_end = PyInt(1)) }

CallInit ==
    /\ cfg \in CallArgs
    /\ pc = "entry"
    /\ script_name = <<>>
    /\ nextKey = 0
    /\ currentKey = PyNone
    /\ key_length = PyNone
    /\ i = 0
    /\ proc = NoProc
    /\ conversions = 0
    /\ nbconvert_rc = PyNone
    /\ runs = <<>>
    /\ out = <<>>
    /\ terminal = ""

RangeMode == EqStr(cfg.key_length, "i")

\* control leaves run_notebook_in_loop with exception e
Leave(o, e) ==
    /\ out' = ModuleLevel(o, e).out
    /\ terminal' = ModuleLevel(o, e).terminal
    /\ pc' = "done"

\* line 63 with the test left out
NotebookMissing_Never(c) == FALSE

\* lines 63-65: os.path.exists(notebook_name)
NotebookMissing(c) == ~c.exists

Entry ==
    /\ pc = "entry"
    /\ IF NotebookMissing(cfg)
       THEN /\ out' = Append(out, MissingMsg(cfg.notebook_name))
            /\ pc' = "done"
            /\ terminal' = "returned"
       ELSE /\ pc' = "convert"
            /\ UNCHANGED <<out, terminal>>
    /\ UNCHANGED <<cfg, script_name, nextKey, currentKey, key_length, i, proc,
                   conversions, nbconvert_rc, runs>>

\* line 67: subprocess.run(["jupyter", "nbconvert", ...]) starts the converter
ConvertStart ==
    /\ pc = "convert"
    /\ conversions' = conversions + 1
    /\ \/ /\ proc' = [program |-> "jupyter", status |-> "running"]
          /\ pc' = "converting"
          /\ UNCHANGED <<out, terminal>>
       \/ /\ Leave(out, OSError("jupyter"))
          /\ UNCHANGED proc
    /\ UNCHANGED <<cfg, script_name, nextKey, currentKey, key_length, i,
                   nbconvert_rc, runs>>

RetCodes == {0, 1}

\* line 67 with check=True passed to subprocess.run
AfterConvert_Checked(rc) ==
    IF rc # 0
    THEN [class |-> "CalledProcessError", text |-> "returned non-zero exit status"]
    ELSE NoException

\* line 67: the CompletedProcess of the converter is dropped unread
AfterConvert(rc) == NoException

\* lines 67-74, 78-79: the converter exits (its returncode is not read),
\* script_name is derived, and the mode is chosen
ConvertExit ==
    /\ pc = "converting"
    /\ \E rc \in RetCodes :
        /\ proc' = NoProc
        /\ nbconvert_rc' = PyInt(rc)
        /\ IF AfterConvert(rc).class # ""
           THEN /\ Leave(out, AfterConvert(rc))
                /\ UNCHANGED <<script_name, nextKey, key_length, i>>
           ELSE /\ script_name' = Replace(cfg.notebook_name)
                /\ UNCHANGED terminal
                /\ IF RangeMode
                   THEN /\ out' = Append(out, RangeMsg(cfg.given_range_begin,
                                                       cfg.given_range_end))
                        /\ nextKey' = cfg.given_range_begin.n
                        /\ pc' = "outer"
                        /\ UNCHANGED <<key_length, i>>
                   ELSE /\ key_length' = cfg.key_length
                        /\ i' = 0
                        /\ pc' = "inner"
                        /\ UNCHANGED <<out, nextKey>>
    /\ UNCHANGED <<cfg, currentKey, conversions, runs>>

\* lines 75-77: next value of the range, or the end of the function
Outer ==
    /\ pc = "outer"
    /\ IF nextKey \in KeyRange(cfg.given_range_begin.n, cfg.given_range_end.n)
       THEN /\ currentKey' = PyInt(nextKey)
            /\ nextKey' = nextKey + 1
            /\ out' = Append(out, CurrentKeyMsg(nextKey))
            /\ key_length' = PyInt(nextKey)
            /\ i' = 0
            /\ pc' = "inner"
            /\ UNCHANGED terminal
       ELSE /\ pc' = "done"
            /\ terminal' = "returned"
            /\ UNCHANGED <<currentKey, nextKey, out, key_length, i>>
    /\ UNCHANGED <<cfg, script_name, proc, conversions, nbconvert_rc, runs>>

Run(status, rc) ==
    [ script |-> Join(script_name),
      inputs |-> Inputs(cfg.execute_on_which_device, cfg.token, key_length,
                        cfg.filename),
      key    |-> key_length,
      n      |-> i + 1,
      status |-> status,
      rc     |-> rc ]

\* line 48 with subprocess.Popen in place of subprocess.run
WaitsForChild_Popen == FALSE

\* line 48: subprocess.run returns only when the child has exited
WaitsForChild == TRUE

\* lines 37-48, 57-59: next repetition; the banner, the inputs, and the
\* spawn, which either starts the child or raises into the except clause
\* (a clause that ran to its end would let the for statement go on); or the
\* loop is over and the call returns
Inner ==
    /\ pc = "inner"
    /\ IF i \in LoopRange(cfg.loop_count)
       THEN \/ /\ proc' = [program |-> "python", status |-> "running"]
               /\ runs' = Append(runs, Run("running", PyNone))
               /\ out' = Append(out, BannerMsg(i + 1))
               /\ IF WaitsForChild
                  THEN pc' = "running" /\ UNCHANGED i
                  ELSE pc' = "inner" /\ i' = i + 1
               /\ UNCHANGED terminal
            \/ LET r == RaisedInTry(Append(out, BannerMsg(i + 1)),
                                    OSError("python"))
               IN  /\ runs' = Append(runs, Run("not started", PyNone))
                   /\ IF r.raised.class = ""
                      THEN /\ i' = i + 1
                           /\ pc' = "inner"
                           /\ out' = r.out
                           /\ UNCHANGED terminal
                      ELSE /\ Leave(r.out, r.raised)
                           /\ UNCHANGED i
                   /\ UNCHANGED proc
       ELSE /\ IF RangeMode
               THEN pc' = "outer" /\ UNCHANGED terminal
               ELSE pc' = "done" /\ terminal' = "returned"
            /\ UNCHANGED <<i, proc, runs, out>>
    /\ UNCHANGED <<cfg, script_name, nextKey, currentKey, key_length,
                   conversions, nbconvert_rc>>

\* lines 48-55: the child exits with rc; nonzero ends the program
ChildExit ==
    /\ pc = "running"
    /\ \E rc \in RetCodes :
        LET a == AfterReturn(out, i + 1, rc)
            r == IF a.raised.class = "" THEN a ELSE RaisedInTry(a.out, a.raised)
        IN  /\ proc' = NoProc
            /\ runs' = [runs EXCEPT ![Len(runs)] =
                           [@ EXCEPT !.status = "exited", !.rc = PyInt(rc)]]
            /\ IF r.raised.class = ""
               THEN /\ i' = i + 1
                    /\ pc' = "inner"
                    /\ out' = r.out
                    /\ UNCHANGED terminal
               ELSE /\ Leave(r.out, r.raised)
                    /\ UNCHANGED i
    /\ UNCHANGED <<cfg, script_name, nextKey, currentKey, key_length,
                   conversions, nbconvert_rc>>

Next ==
    \/ Entry
    \/ ConvertStart
    \/ ConvertExit
    \/ Outer
    \/ Inner
    \/ ChildExit

Spec == Init /\ [][Next]_vars

\* the interpreter always takes its next step, and every child that was
\* started exits in the end (no child hangs)
FairSpec ==
    /\ Spec
    /\ WF_vars(Entry \/ ConvertStart \/ Outer \/ Inner)
    /\ WF_vars(ConvertExit)
    /\ WF_vars(ChildExit)

\* the function run_notebook_in_loop on its own
CallSpec == CallInit /\ [][Next]_vars

----------------------------------------------------------------------------
(* Vocabulary of the properties *)

Terminated == pc = "done"
\* the loops were reached: the notebook existed and the converter was started
LoopsReached == script_name # <<>>
Exited(r) == r.status = "exited"
Succeeded(r) == Exited(r) /\ r.rc.n = 0
Failed(r) == Exited(r) /\ r.rc.n # 0
NotStarted(r) == r.status = "not started"
AllSucceeded == \A k \in 1..Len(runs) : Succeeded(runs[k])
\* the key-length line of the lines given to a child
KeyLine(r) == r.inputs[Len(r.inputs) - 1]
Reps == cfg.loop_count
Begin == cfg.given_range_begin.n
End == cfg.given_range_end.n
FixedMode == IsInt(cfg.key_length)
ExampleMode == EqStr(cfg.key_length, "e")
LastRun == runs[Len(runs)]
Aborted == Terminated /\ runs # <<>> /\ Failed(LastRun)
DispatchFailed == Terminated /\ runs # <<>> /\ NotStarted(LastRun)
\* the texts a key-length line can hold: the sentinel, or an integer of the
\* inputs (a defaulted end of range is one above the largest begin)
KeyTexts == {"e"} \cup {IntToStr(n) : n \in (0 - 1)..(MaxKey + 1)}

\* C1: an invocation that returned a nonzero exit status is the last one of
\* the sweep: when the k-th is the first to fail, exactly k were made, the
\* program has ended and no child is left running.
C1_StopOnFirstFailure ==
    \A k \in 1..Len(runs) :
        Failed(runs[k]) => /\ k = Len(runs)
                           /\ Terminated
                           /\ proc = NoProc
                           /\ \A j \in 1..(k - 1) : Succeeded(runs[j])

\* a failure with repetitions of the value and values of the range left over
C1_Witness ==
    /\ Terminated /\ RangeMode
    /\ Len(runs) >= 2
    /\ Failed(runs[Len(runs)])
    /\ runs[Len(runs)].n < Reps
    /\ currentKey.n < End

\* C2: Fixed(v), r >= 1, every invocation returning 0: exactly r invocations,
\* ordinals 1..r in order, each given key length v, and a normal return.
C2_FixedSweep ==
    (Terminated /\ LoopsReached /\ FixedMode /\ Reps >= 1 /\ AllSucceeded)
        => /\ Len(runs) = Reps
           /\ \A k \in 1..Len(runs) :
                 /\ runs[k].n = k
                 /\ KeyLine(runs[k]) = IntToStr(cfg.key_length.n)
           /\ terminal = "returned"

\* C3: Range(b, e), b <= e, r >= 1, every invocation returning 0: exactly
\* r * (e - b + 1) invocations, r with b, then r with b+1, ..., then r with
\* e, and a normal return.
C3_RangeSweep ==
    (Terminated /\ LoopsReached /\ RangeMode /\ Reps >= 1 /\ AllSucceeded)
        => (Begin <= End
              => /\ Len(runs) = Reps * (End - Begin + 1)
                 /\ \A k \in 1..Len(runs) :
                       KeyLine(runs[k])
                           = IntToStr(Begin + ((k - 1) \div Reps))
                 /\ terminal = "returned")

\* C4: the lines given to every child are [device, token, key, output] for
\* device 1 with a token, [device, key, output] for device 1 without one, and
\* [device, key, output] for device 0 whether or not a token was passed.
C4_PayloadShape ==
    \A k \in 1..Len(runs) :
        LET p == runs[k].inputs
            d == cfg.execute_on_which_device
        IN  /\ d = 1 /\ ~IsNone(cfg.token)
                => /\ Len(p) = 4
                   /\ p[1] = "1"
                   /\ p[2] = cfg.token.s
                   /\ p[3] \in KeyTexts
                   /\ p[4] = cfg.filename
            /\ d = 1 /\ IsNone(cfg.token)
                => /\ Len(p) = 3
                   /\ p[1] = "1"
                   /\ p[2] \in KeyTexts
                   /\ p[3] = cfg.filename
            /\ d = 0
                => /\ Len(p) = 3
                   /\ p[1] = "0"
                   /\ p[2] \in KeyTexts
                   /\ p[3] = cfg.filename

\* device 0 with a token passed all the same, a child started without it
C4_Witness ==
    /\ runs # <<>>
    /\ cfg.execute_on_which_device = 0
    /\ ~IsNone(cfg.token)
    /\ Len(LastRun.inputs) = 3

\* C5: the key-length line is "e" for Example and otherwise the text of the
\* integer the loop was called with, 0 included.
C5_KeyField ==
    \A k \in 1..Len(runs) :
        KeyLine(runs[k]) = IF ExampleMode THEN "e"
                           ELSE IF IsInt(runs[k].key) THEN IntToStr(runs[k].key.n)
                           ELSE "e"

\* C6: a range with begin > end ends in an error, not in a normal return,
\* and starts no child.
C6_InvalidRange ==
    (Terminated /\ LoopsReached /\ RangeMode)
        => (Begin > End => runs = <<>> /\ terminal # "returned")

C8_DispatchFailureStops ==
    \A k \in 1..Len(runs) :
        NotStarted(runs[k]) => /\ k = Len(runs)
                               /\ Terminated
                               /\ proc = NoProc

\* a spawn raised with repetitions of the value and values of the range left
C8_Witness ==
    /\ DispatchFailed /\ RangeMode
    /\ Len(runs) >= 2
    /\ LastRun.n < Reps
    /\ currentKey.n < End

\* how control leaves run_notebook_in_loop after a nonzero return code
FailedRunTerminal ==
    ModuleLevel(<<>>, RaisedInTry(<<>>, AfterReturn(<<>>, 1, 1).raised).raised)
        .terminal

\* C9: after a spawn that raised, control leaves the sweep in another way
\* than after a child that returned nonzero.
C9_DistinctTerminal ==
    DispatchFailed => terminal # FailedRunTerminal

\* C10 as stated: the ordinal reported on abort is the global ordinal of the
\* failing invocation, and the key length announced last is the one it ran
\* with.
C10_GlobalOrdinal ==
    Aborted
        => /\ out[Len(out) - 1] = ErrorMsg(Len(runs), LastRun.rc.n)
           /\ RangeMode
                => out[Len(out) - 2 - LastRun.n]
                       = CurrentKeyMsg(Begin + ((Len(runs) - 1) \div Reps))

\* C10 amended: the ordinal reported on abort is the ordinal of the failing
\* invocation among the repetitions of its own key-length value, that is the
\* global ordinal less r for every earlier value of the range; in range mode
\* the key length announced last is the value of the range it ran for.
C10_LocalOrdinal ==
    Aborted
        => LET k == Len(runs)
               c == Begin + ((k - 1) \div Reps)
               n == IF RangeMode THEN k - Reps * (c - Begin) ELSE k
           IN  /\ out[Len(out) - 1] = ErrorMsg(n, LastRun.rc.n)
               /\ out[Len(out)] = NoNextMsg
               /\ RangeMode
                    => /\ out[Len(out) - 2 - n] = CurrentKeyMsg(c)
                       /\ LastRun.key = PyInt(c)
                       /\ currentKey = PyInt(c)

\* an abort at a later value of a range: the two ordinals differ
C10_Witness ==
    /\ Aborted /\ RangeMode
    /\ Len(runs) > LastRun.n
    /\ Begin < currentKey.n

Running(r) == r.status = "running"
ConverterLive == proc.status = "running" /\ proc.program = "jupyter"
LiveChildren == {k \in 1..Len(runs) : Running(runs[k])}

\* C11: at most one process started by the sweep is alive at a time, the
\* converter included; a child that is alive is the last one started and
\* control is blocked on it; every earlier child has exited and its
\* returncode was read as 0 before the next one was started.
C11_Sequential ==
    /\ Cardinality(LiveChildren) + (IF ConverterLive THEN 1 ELSE 0) <= 1
    /\ ConverterLive => runs = <<>> /\ pc = "converting"
    /\ \A k \in 1..Len(runs) :
          /\ Running(runs[k])
                => /\ k = Len(runs)
                   /\ pc = "running"
                   /\ proc = [program |-> "python", status |-> "running"]
          /\ k < Len(runs) => Succeeded(runs[k])
    /\ proc.status = "running" /\ proc.program = "python"
          => runs # <<>> /\ Running(LastRun)

\* a second child alive after the first one has exited
C11_Witness ==
    /\ Len(runs) >= 2
    /\ Running(LastRun)
    /\ Exited(runs[1])

\* the sweep-level state: Idle until the notebook was found, Running from the
\* start of the converter on, and one of three ends
SweepState ==
    IF pc = "entry" \/ (Terminated /\ conversions = 0) THEN "Idle"
    ELSE IF \E k \in 1..Len(runs) : Failed(runs[k]) THEN "AbortedAt"
    ELSE IF (\E k \in 1..Len(runs) : NotStarted(runs[k]))
               \/ terminal = "caught OSError" THEN "Fatal"
    ELSE IF terminal = "returned" THEN "Completed"
    ELSE "Running"

SweepEnds == {"Completed", "AbortedAt", "Fatal"}

SweepStep ==
    /\ SweepState = "Idle"
          => SweepState' \in {"Idle", "Running"} /\ runs' = runs
    /\ SweepState = "Running"
          => SweepState' \in {"Running"} \cup SweepEnds
    /\ SweepState \in SweepEnds
          => UNCHANGED vars

NoRunTwice ==
    \A j, k \in 1..Len(runs) :
        j < k => <<runs[j].key, runs[j].n>> # <<runs[k].key, runs[k].n>>

\* C12: the sweep goes Idle -> Running -> {Completed, AbortedAt, Fatal};
\* in each of the three ends nothing changes any more, so no child is
\* started; and no pair (key-length value, ordinal) is run twice.
C12_StateMachine ==
    /\ []NoRunTwice
    /\ [][SweepStep]_vars

\* an abort with repetitions left that are never run
C12_Witness ==
    /\ SweepState = "AbortedAt"
    /\ Terminated
    /\ ~RangeMode
    /\ LastRun.n < Reps

SameButKey(p, q) ==
    /\ Len(p) = Len(q)
    /\ \A f \in 1..Len(p) : f # Len(p) - 1 => p[f] = q[f]

\* C13: the arguments of the sweep are never assigned to; all children are
\* run on the same script path and are given the same device, token and
\* output lines; two children of the same key-length value are given the
\* same lines; between values of a range only the key-length line differs.
C13_ConfigUnchanged ==
    /\ [](\A j, k \in 1..Len(runs) :
             /\ runs[j].script = runs[k].script
             /\ SameButKey(runs[j].inputs, runs[k].inputs)
             /\ runs[j].key = runs[k].key => runs[j].inputs = runs[k].inputs)
    /\ [][cfg' = cfg]_vars

\* two children of one value, then a child of the next value with another
\* key-length line, on device 1 with a token
C13_Witness ==
    /\ RangeMode
    /\ Len(runs) >= 3
    /\ runs[1].key = runs[2].key
    /\ runs[2].key # runs[3].key
    /\ KeyLine(runs[2]) # KeyLine(runs[3])
    /\ Len(runs[3].inputs) = 4

RunsOf(v) == {k \in 1..Len(runs) : runs[k].key = PyInt(v)}

\* C14: in a range sweep the pairs (key-length value, ordinal) run so far
\* are a prefix of (b,1),...,(b,r),(b+1,1),...,(e,r), every one but the last
\* having returned 0; so when the sweep has stopped at value c, each value of
\* b..c-1 was run exactly r times and no value above c was run.
C14_Prefix ==
    RangeMode
        => /\ \A k \in 1..Len(runs) :
                 /\ runs[k].key = PyInt(Begin + ((k - 1) \div Reps))
                 /\ runs[k].n = ((k - 1) % Reps) + 1
                 /\ runs[k].key.n <= End
                 /\ k < Len(runs) => Succeeded(runs[k])
           /\ Terminated /\ runs # <<>>
                 => /\ \A v \in Begin..(LastRun.key.n - 1) :
                          Cardinality(RunsOf(v)) = Reps
                    /\ \A v \in (LastRun.key.n + 1)..End : RunsOf(v) = {}

\* a sweep stopped by a failure at a value strictly inside the range
C14_Witness ==
    /\ RangeMode /\ Terminated
    /\ runs # <<>>
    /\ Failed(LastRun)
    /\ Reps >= 2
    /\ Begin < LastRun.key.n
    /\ LastRun.key.n < End

Max0(x) == IF x > 0 THEN x ELSE 0
PlannedAsStated == IF RangeMode THEN Reps * Max0((End - Begin) + 1) ELSE Reps
Planned ==
    IF RangeMode THEN Max0(Reps) * Max0((End - Begin) + 1) ELSE Max0(Reps)

\* C15 as stated: a sweep that has ended made at most r * max(0, e - b + 1)
\* invocations in range mode and at most r in single-value mode.
C15_BoundAsStated ==
    Terminated => Len(runs) <= PlannedAsStated

\* C15 amended: when no child hangs every sweep ends, and at every moment
\* at most max(0, r) * max(0, e - b + 1) invocations were made in range mode
\* and at most max(0, r) in single-value mode; short of the end, control is
\* either about to take a step of its own or blocked on a live child.
C15_Termination ==
    /\ <>Terminated
    /\ [](Len(runs) <= Planned)
    /\ [](~Terminated /\ proc.status # "running"
             => pc \in {"entry", "convert", "outer", "inner"})
    /\ [](proc.status = "running" => pc \in {"converting", "running"})

\* a range sweep that ended after all its planned invocations
C15_Witness ==
    /\ Terminated /\ RangeMode
    /\ Planned >= 4
    /\ Len(runs) = Planned

SomethingPlanned == Reps >= 1 /\ (RangeMode => Begin <= End)

\* C16 as stated: with the notebook present the converter is run once,
\* before any child, and whatever became of the conversion the sweep goes on
\* to its loops and runs the derived script.
C16_AsStated ==
    (Terminated /\ cfg.exists)
        => /\ conversions = 1
           /\ LoopsReached
           /\ SomethingPlanned => runs # <<>>

\* C16 amended: with the notebook present the converter is started exactly
\* once, it has exited before the first child is started and is never
\* started again; its returncode is not read, so with returncode zero or
\* nonzero alike the sweep goes on to its loops and runs the derived script
\* path. Only when the converter cannot be started at all does the sweep
\* end there, without any child, the exception being printed by the caller.
C16_ConversionOnce ==
    /\ conversions <= 1
    /\ cfg.exists /\ pc \notin {"entry", "convert"} => conversions = 1
    /\ runs # <<>> => conversions = 1 /\ IsInt(nbconvert_rc)
    /\ ConverterLive => runs = <<>> /\ IsNone(nbconvert_rc)
    /\ IsInt(nbconvert_rc)
          => /\ LoopsReached
             /\ script_name = Replace(cfg.notebook_name)
             /\ \A k \in 1..Len(runs) :
                   runs[k].script = Join(Replace(cfg.notebook_name))
             /\ Terminated /\ SomethingPlanned => runs # <<>>
    /\ Terminated /\ cfg.exists /\ IsNone(nbconvert_rc)
          => runs = <<>> /\ terminal = "caught OSError"

\* the converter returned nonzero and a child was run all the same
C16_Witness ==
    /\ nbconvert_rc = PyInt(1)
    /\ runs # <<>>
    /\ Exited(LastRun)

\* the lines a range sweep prints when nothing goes wrong and nothing is run
Announcements ==
    IF RangeMode
    THEN {RangeMsg(cfg.given_range_begin, cfg.given_range_end)}
             \cup {CurrentKeyMsg(v) : v \in Begin..End}
    ELSE {}

\* C17: with a repetition count of 0 or below no child is ever started, for
\* one key length as for every value of a range, and once the loops are
\* reached the sweep returns normally, having printed no banner, no abort
\* and no error, only the announcements of the range.
C17_NoRepetitions ==
    Reps <= 0
        => /\ runs = <<>>
           /\ pc # "running"
           /\ proc.program # "python"
           /\ Terminated /\ LoopsReached
                 => /\ terminal = "returned"
                    /\ \A k \in 1..Len(out) : out[k] \in Announcements
                    /\ RangeMode /\ Begin <= End
                          => Len(out) = 1 + ((End - Begin) + 1)

\* a negative count over a range of several values, ended
C17_Witness ==
    /\ Reps < 0
    /\ RangeMode
    /\ Terminated /\ LoopsReached
    /\ Begin < End
    /\ Len(out) >= 3

====
